---- MODULE Spec2Model ----
(***************************************************************************)
(* A model of the pure-Python codecs of imagecodecs.py: the Delta and XOR  *)
(* predictors, the floating point predictor, bit-order reversal, PackBits, *)
(* LZW and PackInts decoding.                                              *)
(*                                                                         *)
(* Byte strings and uint8 arrays are sequences of 0..255.  A call either   *)
(* returns a value or raises; the exception is recorded by its Python      *)
(* class name, "none" meaning that nothing was raised.                     *)
(***************************************************************************)
EXTENDS Integers, Sequences, FiniteSets, TLC

VARIABLES
    \* delta_encode / delta_decode / xor_encode / xor_decode round trip
    pr_codec,      \* "delta" or "xor"
    pr_data,       \* the caller's byte string
    pr_enc,        \* value returned by the encoder
    pr_dec,        \* value returned by the decoder
    pr_exc,        \* exception raised by the round trip
    pr_pc,         \* "encode", "decode", "done", "raised", "idle"
    \* packbits_decode
    pb_encoded,    \* argument
    pb_i,          \* read position i
    pb_out,        \* list out
    pb_ret,        \* returned byte string
    pb_pc,         \* "loop", "done", "idle"
    \* lzw_decode
    lzw_encoded,   \* argument
    lzw_bitcount,  \* bit position of the next code
    lzw_bitw,      \* current code width
    lzw_shr,       \* current right shift; mask is derived from bitw and shr
    lzw_table,     \* the dictionary (<<>> while the local is unbound)
    lzw_lentable,  \* its length as the code tracks it (0 while unbound)
    lzw_code,      \* last code read
    lzw_oldcode,   \* previous code
    lzw_result,    \* list of emitted strings
    lzw_warned,    \* whether warnings.warn was called
    lzw_ret,       \* returned byte string
    lzw_exc,       \* exception raised
    lzw_pc,        \* "start", "loop", "clear", "after", "returned", "raised", "idle"
    \* packints_decode
    pi_data,       \* argument data
    pi_dtype,      \* argument dtype: [kind, itemsize]
    pi_numbits,    \* argument numbits
    pi_arg_runlen, \* argument runlen as the caller passed it
    pi_runlen,     \* local runlen
    pi_skipbits,   \* local skipbits
    pi_size,       \* local size
    pi_bitcount,   \* local bitcount
    pi_i,          \* loop index i
    pi_result,     \* result array
    pi_exc,        \* exception raised
    pi_pc,         \* "start", "loop", "returned", "raised", "idle"
    \* bitorder_decode, called by several threads
    bo_bitorder,   \* the list _bitorder shared by all calls
    bo_arg,        \* per call: the data as it was when the call was made
    bo_data,       \* per call: the caller's object, [kind, bytes]
    bo_ret,        \* per call: returned value
    bo_exc,        \* per call: exception raised
    bo_pc,         \* per call: "test", "append0", "append1", "try", "returned", "raised"
    \* floatpred_decode
    fp_data,       \* the bytes of the caller's array
    fp_shape,      \* its shape
    fp_dtype,      \* its dtype: [char, itemsize]
    fp_axis,       \* argument axis
    fp_ret,        \* the bytes of the returned array
    fp_exc,        \* exception raised
    fp_pc          \* "call", "returned", "raised", "idle"

prVars == <<pr_codec, pr_data, pr_enc, pr_dec, pr_exc, pr_pc>>
pbVars == <<pb_encoded, pb_i, pb_out, pb_ret, pb_pc>>
lzwVars == <<lzw_encoded, lzw_bitcount, lzw_bitw, lzw_shr, lzw_table,
             lzw_lentable, lzw_code, lzw_oldcode, lzw_result, lzw_warned,
             lzw_ret, lzw_exc, lzw_pc>>
piVars == <<pi_data, pi_dtype, pi_numbits, pi_arg_runlen, pi_runlen,
            pi_skipbits, pi_size, pi_bitcount, pi_i, pi_result, pi_exc, pi_pc>>
boVars == <<bo_bitorder, bo_arg, bo_data, bo_ret, bo_exc, bo_pc>>
fpVars == <<fp_data, fp_shape, fp_dtype, fp_axis, fp_ret, fp_exc, fp_pc>>
vars == <<prVars, pbVars, lzwVars, piVars, boVars, fpVars>>

\* the variables of all codecs but one
exceptPr == <<pbVars, lzwVars, piVars, boVars, fpVars>>
exceptPb == <<prVars, lzwVars, piVars, boVars, fpVars>>
exceptLzw == <<prVars, pbVars, piVars, boVars, fpVars>>
exceptPi == <<prVars, pbVars, lzwVars, boVars, fpVars>>
exceptBo == <<prVars, pbVars, lzwVars, piVars, fpVars>>
exceptFp == <<prVars, pbVars, lzwVars, piVars, boVars>>

-----------------------------------------------------------------------------
(* Bounds of the model.                                                    *)

\* longest byte string given to the predictors
MaxLen == 3
\* longest byte string given to packbits_decode
MaxPackbitsLen == 4
\* most 9-bit codes in a short LZW strip
MaxCodes == 5
\* length in bytes of the long LZW strips
LongLen == 2400
\* longest byte string given to packints_decode
MaxPackintsLen == 3
\* largest runlen given to packints_decode
MaxRunlen == 5
\* number of threads that call bitorder_decode at the same time
NumThreads == 2

-----------------------------------------------------------------------------
(* Values shared by the codecs.                                            *)

Pow2(k) == 2 ^ k

\* all byte strings over the byte values S of length 0..n
BytesUpTo(S, n) == UNION {[1..k -> S] : k \in 0..n}

\* b'x' * k
Repeat(s, k) == [j \in 1..(k * Len(s)) |-> s[((j - 1) % Len(s)) + 1]]

\* Python slice s[a:b] with 0 <= a, on a 0-based sequence
Slice(s, a, b) ==
    LET hi == IF b < Len(s) THEN b ELSE Len(s)
    IN  IF a >= hi THEN <<>> ELSE SubSeq(s, a + 1, hi)

Ok(v) == [exc |-> "none", val |-> v]
Raise(e) == [exc |-> e, val |-> <<>>]

\* a ^ b on integers of w bits
RECURSIVE Xor(_, _, _)
Xor(a, b, w) ==
    IF w = 0 THEN 0
    ELSE ((a + b) % 2) + 2 * Xor(a \div 2, b \div 2, w - 1)

-----------------------------------------------------------------------------
(* Delta and XOR predictors on byte strings.                               *)

\* numpy.diff(data) on uint8: wraps modulo 256
diff_u1(data) ==
    IF Len(data) = 0 THEN <<>>
    ELSE [k \in 1..(Len(data) - 1) |-> (data[k + 1] - data[k]) % 256]

\* numpy.cumsum(data, dtype='u1'): running sum modulo 256
RECURSIVE cumsum_u1(_)
cumsum_u1(data) ==
    IF Len(data) = 0 THEN <<>>
    ELSE LET n == Len(data)
             head == cumsum_u1(SubSeq(data, 1, n - 1))
         IN  IF n = 1 THEN <<data[1]>>
             ELSE Append(head, (head[n - 1] + data[n]) % 256)

\* delta_encode(data) for bytes: data[0] of an empty array raises IndexError
delta_encode(data) ==
    IF Len(data) = 0 THEN Raise("IndexError")
    ELSE Ok(<<data[1]>> \o diff_u1(data))

\* delta_decode(data) for bytes
delta_decode(data) == Ok(cumsum_u1(data))

\* xor_encode(data) for bytes: bitwise_xor(data[1:], data[:-1]), data[0] first
xor_encode(data) ==
    IF Len(data) = 0 THEN Raise("IndexError")
    ELSE Ok(<<data[1]>> \o
            [k \in 1..(Len(data) - 1) |-> Xor(data[k + 1], data[k], 8)])

\* the loop of xor_decode: prev = c ^ prev; b.append(chr(prev))
RECURSIVE xor_run(_, _)
xor_run(prev, rest) ==
    IF Len(rest) = 0 THEN <<>>
    ELSE LET p == Xor(rest[1], prev, 8)
         IN  <<p>> \o xor_run(p, Tail(rest))

\* ''.join(b).encode('latin1'): code points 0..255 map to the same byte,
\* any other code point raises UnicodeEncodeError
latin1(chars) ==
    IF \A k \in 1..Len(chars) : chars[k] \in 0..255
    THEN Ok(chars) ELSE Raise("UnicodeEncodeError")

\* xor_decode(data) for bytes: data[0] of an empty string raises IndexError
xor_decode(data) ==
    IF Len(data) = 0 THEN Raise("IndexError")
    ELSE latin1(<<data[1]>> \o xor_run(data[1], Tail(data)))

\* byte values the predictor inputs are drawn from
PredictorBytes == {0, 1, 127, 128, 255}

PredictorIdle ==
    /\ pr_codec = "none" /\ pr_data = <<>> /\ pr_enc = <<>> /\ pr_dec = <<>>
    /\ pr_exc = "none" /\ pr_pc = "idle"

PredictorInit ==
    /\ pr_codec \in {"delta", "xor"}
    /\ pr_data \in BytesUpTo(PredictorBytes, MaxLen)
    /\ pr_enc = <<>> /\ pr_dec = <<>>
    /\ pr_exc = "none" /\ pr_pc = "encode"

\* the inner call of decode(encode(b))
EncodeCall(codec, r) ==
    /\ pr_pc = "encode" /\ pr_codec = codec
    /\ pr_enc' = r.val
    /\ pr_exc' = r.exc
    /\ pr_pc' = IF r.exc = "none" THEN "decode" ELSE "raised"
    /\ UNCHANGED <<pr_codec, pr_data, pr_dec>>

\* the outer call of decode(encode(b))
DecodeCall(codec, r) ==
    /\ pr_pc = "decode" /\ pr_codec = codec
    /\ pr_dec' = r.val
    /\ pr_exc' = r.exc
    /\ pr_pc' = IF r.exc = "none" THEN "done" ELSE "raised"
    /\ UNCHANGED <<pr_codec, pr_data, pr_enc>>

DeltaEncode == EncodeCall("delta", delta_encode(pr_data)) /\ UNCHANGED exceptPr
DeltaDecode == DecodeCall("delta", delta_decode(pr_enc)) /\ UNCHANGED exceptPr
XorEncode == EncodeCall("xor", xor_encode(pr_data)) /\ UNCHANGED exceptPr
XorDecode == DecodeCall("xor", xor_decode(pr_enc)) /\ UNCHANGED exceptPr

-----------------------------------------------------------------------------
(* PackBits.                                                               *)

\* byte values the PackBits inputs are drawn from: literal runs of 1, 2 and
\* 128 bytes, the no-op, and replicate runs of 128, 3 and 2 bytes
PackbitsBytes == {0, 1, 127, 128, 129, 254, 255}

PackbitsIdle ==
    /\ pb_encoded = <<>> /\ pb_i = 0 /\ pb_out = <<>> /\ pb_ret = <<>>
    /\ pb_pc = "idle"

\* the third doctest of packbits_decode
PackbitsDoctest ==
    <<254, 170, 2, 128, 0, 42, 253, 170, 3, 128, 0, 42, 34, 247, 170>>

PackbitsInit ==
    /\ pb_encoded \in BytesUpTo(PackbitsBytes, MaxPackbitsLen) \cup {PackbitsDoctest}
    /\ pb_i = 0 /\ pb_out = <<>> /\ pb_ret = <<>>
    /\ pb_pc = "loop"

\* packbits_segment with the replicate count off by one
packbits_segment_m(encoded, i, n) ==
    IF n > 129 THEN Repeat(Slice(encoded, i, i + 1), 257 - n)
    ELSE IF n < 129 THEN Slice(encoded, i, i + n)
    ELSE <<>>

\* what one pass of the while loop appends to out for n = ord(...) + 1
packbits_segment(encoded, i, n) ==
    IF n > 129 THEN Repeat(Slice(encoded, i, i + 1), 258 - n)
    ELSE IF n < 129 THEN Slice(encoded, i, i + n)
    ELSE <<>>

\* how far one pass of the while loop moves i past the control byte
packbits_advance(n) ==
    IF n > 129 THEN 1 ELSE IF n < 129 THEN n ELSE 0

\* one pass of the while loop; ord(b'') raises TypeError, which ends the loop
PackbitsIter ==
    /\ pb_pc = "loop"
    /\ pb_i < Len(pb_encoded)
    /\ LET n == pb_encoded[pb_i + 1] + 1
       IN  /\ pb_out' = pb_out \o packbits_segment(pb_encoded, pb_i + 1, n)
           /\ pb_i' = pb_i + 1 + packbits_advance(n)
    /\ UNCHANGED <<pb_encoded, pb_ret, pb_pc>>
    /\ UNCHANGED exceptPb

\* except TypeError: pass; return bytes(out)
PackbitsReturn ==
    /\ pb_pc = "loop"
    /\ pb_i >= Len(pb_encoded)
    /\ pb_ret' = pb_out
    /\ pb_pc' = "done"
    /\ UNCHANGED <<pb_encoded, pb_i, pb_out>>
    /\ UNCHANGED exceptPb

-----------------------------------------------------------------------------
(* LZW.                                                                    *)

CLEAR == 256
EOI == 257

\* the int 0 that newtable.extend((0, 0)) stores at the two reserved codes;
\* every other entry is a byte string
IntZero == <<-1>>

\* newtable: the 256 single bytes and the two reserved entries
newtable == [k \in 1..258 |-> IF k <= 256 THEN <<k - 1>> ELSE IntZero]

\* switchbits with the second threshold one entry late
switchbits_keys_m == {255, 512, 1023, 2047}

\* the keys of the dict switchbits
switchbits_keys == {255, 511, 1023, 2047}

\* switchbits[key]: bit-width and shr-bits; the bit-mask of the entry is
\* bitw ones followed by shr zeros
switchbits(key) ==
    CASE key = 255 -> [bitw |-> 9, shr |-> 23]
      [] key = 511 -> [bitw |-> 10, shr |-> 22]
      [] key = 1023 -> [bitw |-> 11, shr |-> 21]
      [] key = 2047 -> [bitw |-> 12, shr |-> 20]

\* next_code(): the bitw bits at bit position bitcount of encoded, read
\* through a big-endian 32-bit word that is zero padded past the end.
\* (code << bitcount % 8) & mask >> shr is (word >> (shr - bitcount % 8))
\* modulo 2^bitw; shr - bitcount % 8 is at least 13, so the lowest byte of
\* the word never takes part and the word is kept without it (24 bits).
next_code(encoded, bitcount, bitw, shr) ==
    LET start == bitcount \div 8
        s == Slice(encoded, start, start + 4)
        p == s \o [k \in 1..(4 - Len(s)) |-> 0]
        word24 == p[1] * 65536 + p[2] * 256 + p[3]
    IN  (word24 \div Pow2(shr - 8 - (bitcount % 8))) % Pow2(bitw)

\* the else branch of the loop for an ordinary code: the string to emit and
\* the dictionary entry to add.  table[oldcode] raises IndexError when
\* oldcode is past the end of the list; slicing or adding to the int of a
\* reserved entry raises TypeError.
lzw_ordinary(table, lentable, oldcode, code) ==
    LET fail(e) == [exc |-> e, decoded |-> <<>>, newcode |-> <<>>]
    IN  IF Len(table) = 0 THEN fail("UnboundLocalError")
        ELSE IF code < lentable
        THEN LET decoded == table[code + 1]
             IN  IF oldcode >= Len(table) THEN fail("IndexError")
                 ELSE IF decoded = IntZero \/ table[oldcode + 1] = IntZero
                 THEN fail("TypeError")
                 ELSE [exc |-> "none", decoded |-> decoded,
                       newcode |-> Append(table[oldcode + 1], decoded[1])]
        ELSE IF oldcode >= Len(table) THEN fail("IndexError")
        ELSE LET newcode == table[oldcode + 1]
             IN  IF newcode = IntZero THEN fail("TypeError")
                 ELSE [exc |-> "none", decoded |-> Append(newcode, newcode[1]),
                       newcode |-> Append(newcode, newcode[1])]

\* if lentable in switchbits: bitw, shr, mask = switchbits[lentable]
lzw_switch(lentable, bitw, shr) ==
    IF lentable \in switchbits_keys
    THEN switchbits(lentable)
    ELSE [bitw |-> bitw, shr |-> shr]

\* b''.join(result) of byte strings
RECURSIVE join(_)
join(result) ==
    IF Len(result) = 0 THEN <<>>
    ELSE IF Len(result) = 1 THEN result[1]
    ELSE LET h == Len(result) \div 2
         IN  join(SubSeq(result, 1, h)) \o join(SubSeq(result, h + 1, Len(result)))

LzwIdle ==
    /\ lzw_encoded = <<>> /\ lzw_bitcount = 0 /\ lzw_bitw = 0 /\ lzw_shr = 0
    /\ lzw_table = <<>> /\ lzw_lentable = 0 /\ lzw_code = 0 /\ lzw_oldcode = 0
    /\ lzw_result = <<>> /\ lzw_warned = FALSE /\ lzw_ret = <<>>
    /\ lzw_exc = "none" /\ lzw_pc = "idle"

\* the state at line 446, for the argument encoded
LzwCalled(encoded) ==
    /\ lzw_encoded = encoded
    /\ lzw_bitcount = 0
    /\ lzw_bitw = switchbits(255).bitw /\ lzw_shr = switchbits(255).shr
    /\ lzw_table = <<>> /\ lzw_lentable = 0 /\ lzw_code = 0 /\ lzw_oldcode = 0
    /\ lzw_result = <<>> /\ lzw_warned = FALSE /\ lzw_ret = <<>>
    /\ lzw_exc = "none" /\ lzw_pc = "start"

\* lines 447-456: the checks of the length and of the first code
LzwStart ==
    /\ lzw_pc = "start"
    /\ IF Len(lzw_encoded) < 4
          \/ next_code(lzw_encoded, lzw_bitcount, lzw_bitw, lzw_shr) # CLEAR
       THEN lzw_exc' = "ValueError" /\ lzw_pc' = "raised"
       ELSE lzw_exc' = "none" /\ lzw_pc' = "loop"
    /\ lzw_code' = 0 /\ lzw_oldcode' = 0 /\ lzw_result' = <<>>
    /\ UNCHANGED <<lzw_encoded, lzw_bitcount, lzw_bitw, lzw_shr, lzw_table,
                   lzw_lentable, lzw_warned, lzw_ret>>
    /\ UNCHANGED exceptLzw

\* lines 458-466 and 472-485: read a code at the top of the loop; break, or
\* reset the dictionary on CLEAR, or decode an ordinary code
LzwRead ==
    /\ lzw_pc = "loop"
    /\ LET code == next_code(lzw_encoded, lzw_bitcount, lzw_bitw, lzw_shr)
           bitcount == lzw_bitcount + lzw_bitw
           o == lzw_ordinary(lzw_table, lzw_lentable, lzw_oldcode, code)
           sw == lzw_switch(lzw_lentable + 1, lzw_bitw, lzw_shr)
       IN  /\ lzw_code' = code
           /\ lzw_bitcount' = bitcount
           /\ IF code = EOI \/ bitcount >= Len(lzw_encoded) * 8
              THEN /\ lzw_pc' = "after"
                   /\ UNCHANGED <<lzw_bitw, lzw_shr, lzw_table, lzw_lentable,
                                  lzw_oldcode, lzw_result, lzw_exc>>
              ELSE IF code = CLEAR
              THEN /\ lzw_table' = newtable
                   /\ lzw_lentable' = 258
                   /\ lzw_bitw' = switchbits(255).bitw
                   /\ lzw_shr' = switchbits(255).shr
                   /\ lzw_pc' = "clear"
                   /\ UNCHANGED <<lzw_oldcode, lzw_result, lzw_exc>>
              ELSE IF o.exc # "none"
              THEN /\ lzw_exc' = o.exc
                   /\ lzw_pc' = "raised"
                   /\ UNCHANGED <<lzw_bitw, lzw_shr, lzw_table, lzw_lentable,
                                  lzw_oldcode, lzw_result>>
              ELSE /\ lzw_result' = Append(lzw_result, o.decoded)
                   /\ lzw_table' = Append(lzw_table, o.newcode)
                   /\ lzw_lentable' = lzw_lentable + 1
                   /\ lzw_oldcode' = code
                   /\ lzw_bitw' = sw.bitw
                   /\ lzw_shr' = sw.shr
                   /\ lzw_pc' = "loop"
                   /\ UNCHANGED lzw_exc
    /\ UNCHANGED <<lzw_encoded, lzw_warned, lzw_ret>>
    /\ UNCHANGED exceptLzw

\* lines 467-471 and 483-485: read the code that follows a CLEAR
LzwReadAfterClear ==
    /\ lzw_pc = "clear"
    /\ LET code == next_code(lzw_encoded, lzw_bitcount, lzw_bitw, lzw_shr)
           sw == lzw_switch(lzw_lentable, lzw_bitw, lzw_shr)
       IN  /\ lzw_code' = code
           /\ lzw_bitcount' = lzw_bitcount + lzw_bitw
           /\ IF code = EOI
              THEN /\ lzw_pc' = "after"
                   /\ UNCHANGED <<lzw_bitw, lzw_shr, lzw_oldcode, lzw_result,
                                  lzw_exc>>
              ELSE IF code >= Len(lzw_table)
              THEN /\ lzw_exc' = "IndexError"
                   /\ lzw_pc' = "raised"
                   /\ UNCHANGED <<lzw_bitw, lzw_shr, lzw_oldcode, lzw_result>>
              ELSE /\ lzw_result' = Append(lzw_result, lzw_table[code + 1])
                   /\ lzw_oldcode' = code
                   /\ lzw_bitw' = sw.bitw
                   /\ lzw_shr' = sw.shr
                   /\ lzw_pc' = "loop"
                   /\ UNCHANGED lzw_exc
    /\ UNCHANGED <<lzw_encoded, lzw_table, lzw_lentable, lzw_warned, lzw_ret>>
    /\ UNCHANGED exceptLzw

\* lines 487-490: the warning and the join; joining a list that holds the
\* int of a reserved entry raises TypeError
LzwReturn ==
    /\ lzw_pc = "after"
    /\ lzw_warned' = (lzw_code # EOI)
    /\ IF \E k \in 1..Len(lzw_result) : lzw_result[k] = IntZero
       THEN lzw_exc' = "TypeError" /\ lzw_pc' = "raised" /\ UNCHANGED lzw_ret
       ELSE lzw_ret' = join(lzw_result) /\ lzw_pc' = "returned" /\ UNCHANGED lzw_exc
    /\ UNCHANGED <<lzw_encoded, lzw_bitcount, lzw_bitw, lzw_shr, lzw_table,
                   lzw_lentable, lzw_code, lzw_oldcode, lzw_result>>
    /\ UNCHANGED exceptLzw

\* the bits of a code of the given width, most significant first
CodeBits(code, width) == [j \in 1..width |-> (code \div Pow2(width - j)) % 2]

RECURSIVE ConcatBits(_, _)
ConcatBits(codes, width) ==
    IF Len(codes) = 0 THEN <<>>
    ELSE CodeBits(codes[1], width) \o ConcatBits(Tail(codes), width)

\* the bytes of a bit string, zero padded to a whole number of bytes
BitsToBytes(bits) ==
    LET n == (Len(bits) + 7) \div 8
        bit(i) == IF i <= Len(bits) THEN bits[i] ELSE 0
    IN  [k \in 1..n |->
            bit(8*k - 7) * 128 + bit(8*k - 6) * 64 + bit(8*k - 5) * 32
            + bit(8*k - 4) * 16 + bit(8*k - 3) * 8 + bit(8*k - 2) * 4
            + bit(8*k - 1) * 2 + bit(8*k)]

\* a strip holding the given codes, each 9 bits wide
PackCodes9(codes) == BitsToBytes(ConcatBits(codes, 9))

\* codes the short strips are made of: a byte, the two control codes, the
\* first free code, the code after it and a code far outside the dictionary
LzwCodes == {97, CLEAR, EOI, 258, 259, 300}

\* the strip of the doctest and the string it decodes to
LzwFixture ==
    <<128, 28, 204, 39, 145, 1, 160, 194, 109, 54, 153, 78, 66, 3, 201, 190,
      11, 7, 132, 194, 205, 166, 56, 124, 34, 20, 32, 51, 195, 160, 209, 99,
      148, 2, 2>>
LzwFixtureDecoded ==
    <<115, 97, 121, 32, 104, 97, 109, 109, 101, 114, 32, 121, 111, 32, 104,
      97, 109, 109, 101, 114, 32, 109, 99, 32, 104, 97, 109, 109, 101, 114,
      32, 103, 111, 32, 104, 97, 109, 109, 101, 114>>

\* strips of 8 codes without EOI, which fill 9 bytes exactly
LzwExactFit ==
    {PackCodes9(<<CLEAR>> \o c) : c \in [1..7 -> {97, 258}]}

LzwShortStrips ==
    {PackCodes9(c) : c \in UNION {[1..k -> LzwCodes] : k \in 1..MaxCodes}}

LzwInit ==
    \E encoded \in LzwShortStrips \cup LzwExactFit \cup {LzwFixture} :
        LzwCalled(encoded)

\* a strip of LongLen bytes: CLEAR, then zero bits throughout (code 0 at any
\* width) but for the code m.v, written m.w bits wide at bit position m.p
LongStrip(m) ==
    LET bits == CodeBits(m.v, m.w)
        bit(i) == IF i < 9 THEN CodeBits(CLEAR, 9)[i + 1]
                  ELSE IF i >= m.p /\ i < m.p + m.w THEN bits[i - m.p + 1]
                  ELSE 0
    IN  [k \in 1..LongLen |->
            bit(8*k - 8) * 128 + bit(8*k - 7) * 64 + bit(8*k - 6) * 32
            + bit(8*k - 5) * 16 + bit(8*k - 4) * 8 + bit(8*k - 3) * 4
            + bit(8*k - 2) * 2 + bit(8*k - 1)]

\* the one code of a long strip that is not 0.  Read with the widths of
\* switchbits, 255 codes of 9 bits end at bit 2295, 512 codes of 10 bits at
\* bit 7415 and 1024 codes of 11 bits at bit 18679.
LongMarkers ==
    { [p |-> 9, v |-> 0, w |-> 9],           \* none: the dictionary only grows
      [p |-> 2286, v |-> CLEAR, w |-> 9],    \* CLEAR as the last code of 9 bits
      [p |-> 2295, v |-> CLEAR, w |-> 10],   \* CLEAR as the first code of 10 bits
      [p |-> 2295, v |-> EOI, w |-> 10],     \* EOI as the first code of 10 bits
      [p |-> 2295, v |-> 511, w |-> 10],     \* the first free code, 10 bits wide
      [p |-> 7415, v |-> CLEAR, w |-> 11],   \* CLEAR as the first code of 11 bits
      [p |-> 18679, v |-> CLEAR, w |-> 12] } \* CLEAR as the first code of 12 bits

LzwLongInit ==
    \E encoded \in {LongStrip(m) : m \in LongMarkers} \cup LzwShortStrips :
        LzwCalled(encoded)

-----------------------------------------------------------------------------
(* PackInts.                                                               *)

PackintsIdle ==
    /\ pi_data = <<>> /\ pi_dtype = [kind |-> "u", itemsize |-> 1]
    /\ pi_numbits = 0 /\ pi_arg_runlen = 0 /\ pi_runlen = 0
    /\ pi_skipbits = 0 /\ pi_size = 0 /\ pi_bitcount = 0 /\ pi_i = 0
    /\ pi_result = <<>> /\ pi_exc = "none" /\ pi_pc = "idle"

\* the dtypes of the model: uint8, int8, uint16, uint32 and float32
PackintsDtypes ==
    { [kind |-> "u", itemsize |-> 1], [kind |-> "i", itemsize |-> 1],
      [kind |-> "u", itemsize |-> 2], [kind |-> "u", itemsize |-> 4],
      [kind |-> "f", itemsize |-> 4] }

\* byte values the PackInts inputs are drawn from
PackintsBytes == {97, 98, 255}

\* the values of numbits the calls are made with
PackintsNumbits == {0, 1, 2, 3, 4, 8, 16, 32, 64}

PackintsInit ==
    /\ pi_data \in BytesUpTo(PackintsBytes, MaxPackintsLen)
    /\ pi_dtype \in PackintsDtypes
    /\ pi_numbits \in PackintsNumbits
    /\ pi_arg_runlen \in 0..MaxRunlen
    /\ pi_runlen = pi_arg_runlen
    /\ pi_skipbits = 0 /\ pi_size = 0 /\ pi_bitcount = 0 /\ pi_i = 0
    /\ pi_result = <<>> /\ pi_exc = "none" /\ pi_pc = "start"

\* numpy.unpackbits(data): the bits of every byte, most significant first
unpackbits(data) ==
    [k \in 1..(8 * Len(data)) |->
        (data[((k - 1) \div 8) + 1] \div Pow2(7 - ((k - 1) % 8))) % 2]

\* lines 525-531, numbits == 1: the bit array, and with runlen % 8 != 0 the
\* first runlen bits of every row of runlen + (8 - runlen % 8) bits; reshape
\* raises ValueError when the bits do not fill whole rows
packints_bitarray(data, runlen) ==
    LET bits == unpackbits(data)
        row == runlen + (8 - (runlen % 8))
    IN  IF runlen % 8 = 0 THEN Ok(bits)
        ELSE IF Len(bits) % row # 0 THEN Raise("ValueError")
        ELSE Ok([k \in 1..((Len(bits) \div row) * runlen) |->
                    bits[((k - 1) \div runlen) * row + ((k - 1) % runlen) + 1]])

\* numpy.frombuffer(data, dtype): every element is given by its itemsize
\* bytes in memory order; a buffer that is no whole number of elements
\* raises ValueError
frombuffer(data, dtype) ==
    IF Len(data) % dtype.itemsize # 0 THEN Raise("ValueError")
    ELSE Ok([k \in 1..(Len(data) \div dtype.itemsize) |->
                SubSeq(data, (k - 1) * dtype.itemsize + 1, k * dtype.itemsize)])

\* line 541: next(i for i in (1, 2, 4, 8) if 8 * i >= numbits)
itembytes(numbits) ==
    IF 8 >= numbits THEN 1 ELSE IF 16 >= numbits THEN 2
    ELSE IF 32 >= numbits THEN 4 ELSE 8

\* lines 533-543: what the checks that follow the numbits == 1 case decide
packints_checks(dtype, numbits) ==
    IF numbits \in {8, 16, 32, 64} THEN "frombuffer"
    ELSE IF numbits \notin {1, 2, 4, 8, 16, 32} THEN "ValueError"
    ELSE IF dtype.kind \notin {"b", "i", "u"} THEN "ValueError"
    ELSE IF itembytes(numbits) # dtype.itemsize THEN "ValueError"
    ELSE "unpack"

\* lines 525-556: everything before the loop
PackintsStart ==
    /\ pi_pc = "start"
    /\ LET bitarray == packints_bitarray(pi_data, pi_runlen)
           direct == frombuffer(pi_data, pi_dtype)
           checks == packints_checks(pi_dtype, pi_numbits)
           runlen == IF pi_runlen = 0 THEN (8 * Len(pi_data)) \div pi_numbits
                     ELSE pi_runlen
           skipbits == IF (runlen * pi_numbits) % 8 # 0
                       THEN 8 - ((runlen * pi_numbits) % 8) ELSE 0
           returns(r) == /\ pi_result' = r.val
                         /\ pi_exc' = r.exc
                         /\ pi_pc' = IF r.exc = "none" THEN "returned" ELSE "raised"
                         /\ UNCHANGED <<pi_runlen, pi_skipbits, pi_size>>
       IN  IF pi_numbits = 1 THEN returns(bitarray)
           ELSE IF checks = "frombuffer" THEN returns(direct)
           ELSE IF checks = "ValueError" THEN returns(Raise("ValueError"))
           ELSE IF runlen * pi_numbits + skipbits = 0
           THEN /\ pi_runlen' = runlen
                /\ pi_skipbits' = skipbits
                /\ pi_exc' = "ZeroDivisionError"
                /\ pi_pc' = "raised"
                /\ UNCHANGED <<pi_size, pi_result>>
           ELSE /\ pi_runlen' = runlen
                /\ pi_skipbits' = skipbits
                /\ pi_size' = runlen * ((Len(pi_data) * 8)
                                          \div (runlen * pi_numbits + skipbits))
                /\ pi_result' = <<>>
                /\ pi_exc' = "none"
                /\ pi_pc' = "loop"
    /\ pi_bitcount' = 0 /\ pi_i' = 0
    /\ UNCHANGED <<pi_data, pi_dtype, pi_numbits, pi_arg_runlen>>
    /\ UNCHANGED exceptPi

\* struct.unpack('>' + dtype.char, s)[0] for one byte: 'B' is unsigned and
\* 'b' is signed
unpack_byte(dtype, byte) ==
    IF dtype.kind = "i" /\ byte >= 128 THEN byte - 256 ELSE byte

\* lines 558-566: the value at bit position bitcount, for itembytes == 1.
\* (code << bitcount % 8) & bitmask >> shrbits, bitmask being numbits ones
\* followed by shrbits = 8 - numbits zeros.
packints_value(data, dtype, numbits, bitcount) ==
    LET start == bitcount \div 8
        s == Slice(data, start, start + 1)
        code == unpack_byte(dtype, IF Len(s) = 0 THEN 0 ELSE s[1])
        shrbits == itembytes(numbits) * 8 - numbits
    IN  ((code * Pow2(bitcount % 8)) \div Pow2(shrbits)) % Pow2(numbits)

\* lines 557-569: one pass of the for loop
PackintsIter ==
    /\ pi_pc = "loop"
    /\ pi_i < pi_size
    /\ pi_result' = Append(pi_result,
                           packints_value(pi_data, pi_dtype, pi_numbits, pi_bitcount))
    /\ pi_bitcount' = pi_bitcount + pi_numbits
                        + (IF (pi_i + 1) % pi_runlen = 0 THEN pi_skipbits ELSE 0)
    /\ pi_i' = pi_i + 1
    /\ UNCHANGED <<pi_data, pi_dtype, pi_numbits, pi_arg_runlen, pi_runlen,
                   pi_skipbits, pi_size, pi_exc, pi_pc>>
    /\ UNCHANGED exceptPi

\* line 570: return result
PackintsReturn ==
    /\ pi_pc = "loop"
    /\ pi_i >= pi_size
    /\ pi_pc' = "returned"
    /\ UNCHANGED <<pi_data, pi_dtype, pi_numbits, pi_arg_runlen, pi_runlen,
                   pi_skipbits, pi_size, pi_bitcount, pi_i, pi_result, pi_exc>>
    /\ UNCHANGED exceptPi

-----------------------------------------------------------------------------
(* Bit order reversal.                                                     *)

BitorderIdle ==
    /\ bo_bitorder = <<>> /\ bo_arg = <<>> /\ bo_data = <<>>
    /\ bo_ret = <<>> /\ bo_exc = <<>> /\ bo_pc = <<>>

\* the concurrent callers
Threads == 1..NumThreads

\* the 256 bytes of the literal appended to _bitorder
BitorderTable ==
    <<
      0, 128, 64, 192, 32, 160, 96, 224, 16, 144, 80, 208, 48, 176, 112, 240,
      8, 136, 72, 200, 40, 168, 104, 232, 24, 152, 88, 216, 56, 184, 120, 248,
      4, 132, 68, 196, 36, 164, 100, 228, 20, 148, 84, 212, 52, 180, 116, 244,
      12, 140, 76, 204, 44, 172, 108, 236, 28, 156, 92, 220, 60, 188, 124, 252,
      2, 130, 66, 194, 34, 162, 98, 226, 18, 146, 82, 210, 50, 178, 114, 242,
      10, 138, 74, 202, 42, 170, 106, 234, 26, 154, 90, 218, 58, 186, 122, 250,
      6, 134, 70, 198, 38, 166, 102, 230, 22, 150, 86, 214, 54, 182, 118, 246,
      14, 142, 78, 206, 46, 174, 110, 238, 30, 158, 94, 222, 62, 190, 126, 254,
      1, 129, 65, 193, 33, 161, 97, 225, 17, 145, 81, 209, 49, 177, 113, 241,
      9, 137, 73, 201, 41, 169, 105, 233, 25, 153, 89, 217, 57, 185, 121, 249,
      5, 133, 69, 197, 37, 165, 101, 229, 21, 149, 85, 213, 53, 181, 117, 245,
      13, 141, 77, 205, 45, 173, 109, 237, 29, 157, 93, 221, 61, 189, 125, 253,
      3, 131, 67, 195, 35, 163, 99, 227, 19, 147, 83, 211, 51, 179, 115, 243,
      11, 139, 75, 203, 43, 171, 107, 235, 27, 155, 91, 219, 59, 187, 123, 251,
      7, 135, 71, 199, 39, 167, 103, 231, 23, 151, 87, 215, 55, 183, 119, 247,
      15, 143, 79, 207, 47, 175, 111, 239, 31, 159, 95, 223, 63, 191, 127, 255
    >>

\* byte values the bitorder inputs are drawn from
BitorderBytes == {1, 100}

\* the objects a caller passes: a byte string, or a contiguous ndarray that
\* holds the given bytes
BitorderObjects ==
    [kind : {"bytes", "ndarray"}, bytes : BytesUpTo(BitorderBytes, 1)]

\* data.translate(table), and numpy.take(table, view): every byte replaced
\* by the entry of the table at its value
translate(bytes, table) == [k \in 1..Len(bytes) |-> table[bytes[k] + 1]]

\* the state in which every thread has just called bitorder_decode for the
\* first time in the process: the default argument _bitorder is still []
BitorderInit ==
    /\ bo_bitorder = <<>>
    /\ bo_data \in [Threads -> BitorderObjects]
    /\ bo_arg = bo_data
    /\ bo_ret = [t \in Threads |-> <<>>]
    /\ bo_exc = [t \in Threads |-> "none"]
    /\ bo_pc = [t \in Threads |-> "test"]

\* line 330: if not _bitorder
BitorderTest(t) ==
    /\ bo_pc[t] = "test"
    /\ bo_pc' = [bo_pc EXCEPT ![t] = IF Len(bo_bitorder) = 0 THEN "append0" ELSE "try"]
    /\ UNCHANGED <<bo_bitorder, bo_arg, bo_data, bo_ret, bo_exc>>
    /\ UNCHANGED exceptBo

\* lines 331-344: _bitorder.append(b'...')
BitorderAppendBytes(t) ==
    /\ bo_pc[t] = "append0"
    /\ bo_bitorder' = Append(bo_bitorder, "bytes")
    /\ bo_pc' = [bo_pc EXCEPT ![t] = "append1"]
    /\ UNCHANGED <<bo_arg, bo_data, bo_ret, bo_exc>>
    /\ UNCHANGED exceptBo

\* line 345: _bitorder.append(numpy.frombuffer(_bitorder[0], dtype='uint8'))
BitorderAppendArray(t) ==
    /\ bo_pc[t] = "append1"
    /\ bo_bitorder' = Append(bo_bitorder, "ndarray")
    /\ bo_pc' = [bo_pc EXCEPT ![t] = "try"]
    /\ UNCHANGED <<bo_arg, bo_data, bo_ret, bo_exc>>
    /\ UNCHANGED exceptBo

\* the exceptions numpy.take(a, view, out=view) may end in when a is the
\* byte string instead of the uint8 array; ValueError reaches the caller as
\* NotImplementedError (line 352)
TakeFromBytesErrors == {"TypeError", "IndexError", "NotImplementedError"}

\* lines 346-352.  A byte string has no view: AttributeError, and the
\* translated string is returned.  An array is replaced in place through
\* _bitorder[1]: IndexError while the list holds one entry only.
BitorderTry(t) ==
    /\ bo_pc[t] = "try"
    /\ IF bo_data[t].kind = "bytes"
       THEN /\ bo_ret' = [bo_ret EXCEPT ![t] = translate(bo_data[t].bytes, BitorderTable)]
            /\ bo_pc' = [bo_pc EXCEPT ![t] = "returned"]
            /\ UNCHANGED <<bo_data, bo_exc>>
       ELSE IF Len(bo_bitorder) < 2
       THEN /\ bo_exc' = [bo_exc EXCEPT ![t] = "IndexError"]
            /\ bo_pc' = [bo_pc EXCEPT ![t] = "raised"]
            /\ UNCHANGED <<bo_data, bo_ret>>
       ELSE IF bo_bitorder[2] = "ndarray"
       THEN /\ bo_data' = [bo_data EXCEPT
                              ![t].bytes = translate(bo_data[t].bytes, BitorderTable)]
            /\ bo_pc' = [bo_pc EXCEPT ![t] = "returned"]
            /\ UNCHANGED <<bo_ret, bo_exc>>
       ELSE /\ \E e \in TakeFromBytesErrors : bo_exc' = [bo_exc EXCEPT ![t] = e]
            /\ bo_pc' = [bo_pc EXCEPT ![t] = "raised"]
            /\ UNCHANGED <<bo_data, bo_ret>>
    /\ UNCHANGED <<bo_bitorder, bo_arg>>
    /\ UNCHANGED exceptBo

-----------------------------------------------------------------------------
(* Floating point predictor, on a little-endian host.                      *)

FloatpredIdle ==
    /\ fp_data = <<>> /\ fp_shape = <<>>
    /\ fp_dtype = [char |-> "f", itemsize |-> 4] /\ fp_axis = -2
    /\ fp_ret = <<>> /\ fp_exc = "none" /\ fp_pc = "idle"

\* byte values the arrays are filled with
FloatpredBytes == {0, 1, 255}

\* shapes of the arrays: two 3-D shapes and a 2-D shape
FloatpredShapes == {<<1, 2, 1>>, <<1, 1, 2>>, <<2, 1>>}

\* float16 and int16
FloatpredDtypes == {[char |-> "e", itemsize |-> 2], [char |-> "h", itemsize |-> 2]}

RECURSIVE Product(_)
Product(shape) ==
    IF Len(shape) = 0 THEN 1 ELSE Head(shape) * Product(Tail(shape))

\* a call with a writable, contiguous array in native byte order
FloatpredInit ==
    /\ fp_shape \in FloatpredShapes
    /\ fp_dtype \in FloatpredDtypes
    /\ fp_axis \in {-2, -1}
    /\ fp_data \in [1..(Product(fp_shape) * fp_dtype.itemsize) -> FloatpredBytes]
    /\ fp_ret = <<>> /\ fp_exc = "none" /\ fp_pc = "call"

\* lines 286-288: numpy.cumsum(data, axis=-2, dtype='uint8', out=data) on the
\* bytes seen with shape (rows, planes, samples), planes being the bytes of
\* one row of pixels
floatpred_cumsum(bytes, planes, samples) ==
    LET RECURSIVE sum(_, _, _)
        sum(r, k, c) ==
            IF k < 0 THEN 0
            ELSE (sum(r, k - 1, c) + bytes[(r * planes + k) * samples + c + 1]) % 256
    IN  [f \in 1..Len(bytes) |->
            sum((f - 1) \div (planes * samples),
                ((f - 1) \div samples) % planes,
                (f - 1) % samples)]

\* lines 290-298: the summed bytes seen with shape (rows, itemsize, width,
\* samples), moved to (rows, width, samples, itemsize) with the bytes of
\* every value reversed
floatpred_reorder(bytes, itemsize, width, samples) ==
    [f \in 1..Len(bytes) |->
        LET b == (f - 1) % itemsize
            c == ((f - 1) \div itemsize) % samples
            w == ((f - 1) \div (itemsize * samples)) % width
            r == (f - 1) \div (itemsize * samples * width)
        IN  bytes[((r * itemsize + (itemsize - 1 - b)) * width + w) * samples + c + 1]]

\* floatpred_decode(data, axis): the sums are written into the bytes of the
\* array passed in, the reordered copy is returned
FloatpredDecode ==
    /\ fp_pc = "call"
    /\ IF fp_axis # -2
       THEN fp_exc' = "NotImplementedError" /\ fp_pc' = "raised"
            /\ UNCHANGED <<fp_data, fp_ret>>
       ELSE IF Len(fp_shape) < 3 \/ fp_dtype.char \notin {"d", "f", "e"}
       THEN fp_exc' = "ValueError" /\ fp_pc' = "raised"
            /\ UNCHANGED <<fp_data, fp_ret>>
       ELSE LET n == Len(fp_shape)
                width == fp_shape[n - 1]
                samples == fp_shape[n]
                summed == floatpred_cumsum(fp_data, width * fp_dtype.itemsize, samples)
            IN  /\ fp_data' = summed
                /\ fp_ret' = floatpred_reorder(summed, fp_dtype.itemsize, width, samples)
                /\ fp_pc' = "returned"
                /\ UNCHANGED fp_exc
    /\ UNCHANGED <<fp_shape, fp_dtype, fp_axis>>
    /\ UNCHANGED exceptFp

-----------------------------------------------------------------------------
(* Specifications.                                                         *)

InitPredictor ==
    /\ PredictorInit
    /\ PackbitsIdle /\ LzwIdle /\ PackintsIdle /\ BitorderIdle /\ FloatpredIdle
NextPredictor == DeltaEncode \/ DeltaDecode \/ XorEncode \/ XorDecode
SpecPredictor == InitPredictor /\ [][NextPredictor]_vars

InitPackbits ==
    /\ PackbitsInit
    /\ PredictorIdle /\ LzwIdle /\ PackintsIdle /\ BitorderIdle /\ FloatpredIdle
NextPackbits == PackbitsIter \/ PackbitsReturn
SpecPackbits == InitPackbits /\ [][NextPackbits]_vars

InitLzw ==
    /\ LzwInit
    /\ PredictorIdle /\ PackbitsIdle /\ PackintsIdle /\ BitorderIdle /\ FloatpredIdle
NextLzw == LzwStart \/ LzwRead \/ LzwReadAfterClear \/ LzwReturn
SpecLzw == InitLzw /\ [][NextLzw]_vars

InitLzwLong ==
    /\ LzwLongInit
    /\ PredictorIdle /\ PackbitsIdle /\ PackintsIdle /\ BitorderIdle /\ FloatpredIdle
SpecLzwLong == InitLzwLong /\ [][NextLzw]_vars

InitPackints ==
    /\ PackintsInit
    /\ PredictorIdle /\ PackbitsIdle /\ LzwIdle /\ BitorderIdle /\ FloatpredIdle
NextPackints == PackintsStart \/ PackintsIter \/ PackintsReturn
SpecPackints == InitPackints /\ [][NextPackints]_vars

InitBitorder ==
    /\ BitorderInit
    /\ PredictorIdle /\ PackbitsIdle /\ LzwIdle /\ PackintsIdle /\ FloatpredIdle
NextBitorder ==
    \E t \in Threads :
        \/ BitorderTest(t)
        \/ BitorderAppendBytes(t)
        \/ BitorderAppendArray(t)
        \/ BitorderTry(t)
SpecBitorder == InitBitorder /\ [][NextBitorder]_vars

InitFloatpred ==
    /\ FloatpredInit
    /\ PredictorIdle /\ PackbitsIdle /\ LzwIdle /\ PackintsIdle /\ BitorderIdle
NextFloatpred == FloatpredDecode
SpecFloatpred == InitFloatpred /\ [][NextFloatpred]_vars

-----------------------------------------------------------------------------
(* The claims.                                                             *)

\* C1: for every byte string b, the empty one included,
\* delta_decode(delta_encode(b)) returns b.
C1_DeltaRoundTrip ==
    (pr_codec = "delta" /\ pr_pc \in {"done", "raised"})
        => (pr_pc = "done" /\ pr_dec = pr_data)

\* the segments of a PackBits stream, as the format defines them: a control
\* byte n with count = n + 1 is followed by count literal bytes (count < 129)
\* or by one byte to repeat 258 - count times (count > 129); count = 129
\* stands for nothing.  A segment cut short by the end of the input holds
\* the bytes that are there.
RECURSIVE PackbitsSegments(_)
PackbitsSegments(stream) ==
    IF Len(stream) = 0 THEN <<>>
    ELSE LET count == Head(stream) + 1
             rest == Tail(stream)
             take(k) == IF k < Len(rest) THEN k ELSE Len(rest)
             drop(k) == SubSeq(rest, take(k) + 1, Len(rest))
         IN  IF count < 129
             THEN <<SubSeq(rest, 1, take(count))>> \o PackbitsSegments(drop(count))
             ELSE IF count > 129
             THEN <<[j \in 1..(take(1) * (258 - count)) |-> rest[1]]>>
                      \o PackbitsSegments(drop(1))
             ELSE PackbitsSegments(rest)

RECURSIVE Concat(_)
Concat(segments) ==
    IF Len(segments) = 0 THEN <<>>
    ELSE Head(segments) \o Concat(Tail(segments))

\* C2: packbits_decode returns the concatenation, in order, of the literal
\* and replicate segments of its input, and ends without error when no
\* control byte remains.
C2_PackbitsSegments ==
    /\ pb_pc = "done" => pb_ret = Concat(PackbitsSegments(pb_encoded))
    /\ pb_pc = "done" => pb_i >= Len(pb_encoded)

\* C2 happens: a stream with a literal run, a no-op and a replicate run has
\* been decoded
C2_Witness ==
    /\ pb_pc = "done"
    /\ pb_encoded = <<0, 1, 128, 254>> \/ pb_encoded = PackbitsDoctest
    /\ Len(pb_ret) >= 1
    /\ \E k \in 1..(Len(pb_encoded) - 1) :
           pb_encoded[k] > 128 /\ Len(pb_ret) > 257 - pb_encoded[k]

\* C3: lzw_decode stops as soon as it has read EOI; it warns exactly when
\* the loop ended on exhausted input without EOI, and then still returns
\* the joined output.
C3_WarnsAndReturnsOnExhaustion ==
    [][ /\ (lzw_pc \in {"loop", "clear"} /\ lzw_code' = EOI) => lzw_pc' = "after"
        /\ lzw_pc = "after" =>
              /\ lzw_warned' <=> (lzw_code # EOI /\ lzw_bitcount >= 8 * Len(lzw_encoded))
              /\ lzw_warned' => (lzw_pc' = "returned" /\ lzw_exc' = "none") ]_vars

\* C6: for every byte string b, xor_decode(xor_encode(b)) returns b.
C6_XorRoundTrip ==
    (pr_codec = "xor" /\ pr_pc \in {"done", "raised"})
        => (pr_pc = "done" /\ pr_dec = pr_data)

\* whether code k names a byte string of the dictionary
IsString(table, k) == k < Len(table) /\ table[k + 1] # IntZero

\* C8: an ordinary code that lies within the input and does not follow a
\* CLEAR emits dictionary[code] and adds dictionary[previous] + first byte
\* of dictionary[code] when it is in the dictionary, and emits and adds
\* dictionary[previous] + first byte of dictionary[previous] when it is not;
\* the code that follows a CLEAR is emitted and adds nothing.
C8_OrdinaryCodes ==
    [][ LET code == next_code(lzw_encoded, lzw_bitcount, lzw_bitw, lzw_shr)
            ordinary == /\ code # CLEAR /\ code # EOI
                        /\ lzw_bitcount + lzw_bitw <= 8 * Len(lzw_encoded)
        IN  /\ (lzw_pc = "loop" /\ ordinary) =>
                  /\ IsString(lzw_table, lzw_oldcode)
                  /\ LET prev == lzw_table[lzw_oldcode + 1]
                         entry == IF IsString(lzw_table, code)
                                  THEN Append(prev, lzw_table[code + 1][1])
                                  ELSE Append(prev, prev[1])
                         emitted == IF IsString(lzw_table, code)
                                    THEN lzw_table[code + 1]
                                    ELSE entry
                     IN  /\ lzw_result' = Append(lzw_result, emitted)
                         /\ lzw_table' = Append(lzw_table, entry)
            /\ (lzw_pc = "clear" /\ ordinary) =>
                  /\ IsString(lzw_table, code)
                  /\ lzw_result' = Append(lzw_result, lzw_table[code + 1])
                  /\ lzw_table' = lzw_table ]_vars

\* the code width the dictionary size calls for
WidthFor(lentable) ==
    IF lentable < 511 THEN 9
    ELSE IF lentable < 1023 THEN 10
    ELSE IF lentable < 2047 THEN 11
    ELSE 12

\* C9: wherever lzw_decode reads a code, the width is the one the size of
\* the dictionary calls for (9, 10, 11 or 12 bits, switching at 511, 1023
\* and 2047 entries), and after every CLEAR the dictionary has its 258
\* initial entries and the width is 9 bits before the next code is read.
C9_WidthFollowsDictionary ==
    /\ [](lzw_pc \in {"start", "loop", "clear"} =>
            /\ lzw_bitw = WidthFor(lzw_lentable)
            /\ lzw_shr = 32 - lzw_bitw
            /\ lzw_lentable = Len(lzw_table))
    /\ [][(lzw_pc \in {"loop", "clear"} /\ lzw_code' = CLEAR
               /\ lzw_pc' \in {"loop", "clear"}) =>
            (lzw_table' = newtable /\ lzw_lentable' = 258 /\ lzw_bitw' = 9)]_vars

\* C9 happens: the dictionary has grown past all three thresholds and the
\* next code is read 12 bits wide
C9_Witness ==
    /\ lzw_pc = "loop" /\ lzw_lentable = 2048 /\ lzw_bitw = 12
    /\ lzw_bitcount > 18679

\* the field of numbits bits at bit position pos of data, bits counted from
\* the most significant bit of the first byte
FieldAt(data, pos, numbits) ==
    LET bits == unpackbits(data)
        RECURSIVE value(_)
        value(k) == IF k = 0 THEN 0 ELSE 2 * value(k - 1) + bits[pos + k]
    IN  value(numbits)

\* the values packints_decode is to return: runs of runlen fields, every run
\* starting on a byte boundary; runlen = 0 stands for one run of all fields
PackedValues(data, numbits, runlen) ==
    LET total == 8 * Len(data)
        perrun == IF runlen = 0 THEN total \div numbits ELSE runlen
        runbits == ((perrun * numbits + 7) \div 8) * 8
        runs == IF runbits = 0 THEN 0 ELSE total \div runbits
    IN  [k \in 1..(runs * perrun) |->
            FieldAt(data, ((k - 1) \div perrun) * runbits
                              + ((k - 1) % perrun) * numbits, numbits)]

\* C4: for numbits 2 and 4, every byte string and every runlen >= 0,
\* packints_decode returns the fields of all complete runs in order.
C4_PackedValues ==
    (pi_numbits \in {2, 4} /\ pi_dtype = [kind |-> "u", itemsize |-> 1]
         /\ pi_pc \in {"returned", "raised"})
        => (pi_pc = "returned"
            /\ pi_result = PackedValues(pi_data, pi_numbits, pi_arg_runlen))

\* C5: packints_decode raises ValueError for every numbits outside
\* {1, 2, 4, 8, 16, 32} and for every dtype narrower than the smallest
\* standard integer that holds numbits bits.
C5_RejectsUnsupported ==
    (pi_pc \in {"returned", "raised"}
         /\ (pi_numbits \notin {1, 2, 4, 8, 16, 32}
             \/ pi_dtype.itemsize < itembytes(pi_numbits)))
        => (pi_pc = "raised" /\ pi_exc = "ValueError")

\* the byte b with its bits in reverse order
Reverse8(b) ==
    LET RECURSIVE rev(_, _)
        rev(x, k) == IF k = 0 THEN 0 ELSE (x % 2) * Pow2(k - 1) + rev(x \div 2, k - 1)
    IN  rev(b, 8)

\* C7: under every interleaving of concurrent calls of bitorder_decode,
\* the first calls included, every call works with the complete table (the
\* byte string and its array, built once) and ends with the bit-reversed
\* data, returned for a byte string and in place for an array.
C7_ConcurrentCallsSafe ==
    \A t \in DOMAIN bo_pc :
        /\ bo_pc[t] = "try" => bo_bitorder = <<"bytes", "ndarray">>
        /\ bo_pc[t] \in {"returned", "raised"} =>
              /\ bo_pc[t] = "returned"
              /\ LET reversed == [k \in 1..Len(bo_arg[t].bytes) |->
                                     Reverse8(bo_arg[t].bytes[k])]
                 IN  IF bo_arg[t].kind = "bytes"
                     THEN bo_ret[t] = reversed
                     ELSE bo_data[t].bytes = reversed

\* C10: floatpred_decode leaves the bytes of the array it is given as they
\* were; the decoded data is in the returned array only.
C10_InputUnchanged ==
    [][(fp_pc = "call" /\ fp_pc' = "returned") => fp_data' = fp_data]_vars

\* C11: once the strip has at least 4 bytes and begins with CLEAR,
\* lzw_decode never ends with an exception: whatever codes follow, it
\* returns a byte string.
C11_NeverFailsAfterClear ==
    (/\ lzw_pc # "idle"
     /\ Len(lzw_encoded) >= 4
     /\ next_code(lzw_encoded, 0, switchbits(255).bitw, switchbits(255).shr) = CLEAR)
        => (lzw_pc # "raised" /\ lzw_exc = "none")

\* C12: every ordinary code whose bits all lie within the input, read before
\* any EOI, adds its string to the output on the pass that reads it; this
\* includes the last code of a strip without EOI that ends on the last bit
\* of the input.  Passes that raise are left aside.
C12_EveryCodeContributes ==
    [][ LET code == next_code(lzw_encoded, lzw_bitcount, lzw_bitw, lzw_shr)
        IN  (/\ lzw_pc \in {"loop", "clear"}
             /\ code # CLEAR /\ code # EOI
             /\ lzw_bitcount + lzw_bitw <= 8 * Len(lzw_encoded)
             /\ lzw_pc' # "raised")
                => Len(lzw_result') = Len(lzw_result) + 1 ]_vars

====
